---- MODULE Spec2Model ----
(***************************************************************************)
(* The input-cursor layer of the parser-combinator engine (src/input.rs):  *)
(* the Input adapters (&str, &[T], &[T; N], SpannedInput, WithContext),    *)
(* the Errors aggregator and the InputRef session operations.              *)
(*                                                                         *)
(* Conventions.  Option<T> is a sequence of length 0 (None) or 1 (Some).   *)
(* Rust offsets are 0-based, TLA+ sequences 1-based: the element at offset *)
(* o of a sequence s is s[o + 1].  A &str is its sequence of UTF-8 bytes.  *)
(***************************************************************************)
EXTENDS Integers, Sequences, FiniteSets, TLC

VARIABLES
    input,      \* InputRef.input: the input the session reads
    offset,     \* InputRef.offset: the cursor
    alt,        \* Errors.alt: Option<Located>, the retained best failure
    secondary,  \* Errors.secondary: Vec<Located>, the secondary log
    markers,    \* the Markers handed out by save(), oldest first
    state,      \* InputRef.state: the user state E::State
    ctx,        \* InputRef.ctx: the context E::Context
    parents,    \* the InputRefs suspended in with_ctx, with_input, parse, check
    emitter,    \* Option<Emitter>: the Emitter of the validation step under way
    recorded,   \* history: the positions given to add_alt/add_alt_err so far
    last        \* history: the last operation, its arguments and its result

vars == <<input, offset, alt, secondary, markers, state, ctx, parents, emitter,
          recorded, last>>

(***************************************************************************)
(* Bounds of the model                                                     *)
(***************************************************************************)
MaxLen == 2
MaxLog == 2
MaxMarkers == 2
MaxRecorded == 3
MaxSetup == 1
MaxDepth == 1

(***************************************************************************)
(* Option, Located, spans                                                  *)
(***************************************************************************)
None == <<>>
Some(x) == <<x>>
is_none(o) == o = <<>>
is_some(o) == o # <<>>
unwrap(o) == o[1]

Located_at(pos, err) == [pos |-> pos, err |-> err]

\* SimpleSpan<usize> built from a Range<usize>; its context is ().
SimpleSpan(a, b) == [context |-> "()", start |-> a, end |-> b]
\* S::new(context, start..end) for the span type S of a SpannedInput.
Span_new(c, a, b) == [context |-> c, start |-> a, end |-> b]

saturating_sub(a, b) == IF a >= b THEN a - b ELSE 0

\* All sequences over S of length at most n.
RECURSIVE SeqsUpTo(_, _)
SeqsUpTo(S, n) ==
    IF n = 0 THEN {<<>>}
    ELSE LET shorter == SeqsUpTo(S, n - 1)
         IN  shorter \cup {Append(s, x) : s \in {t \in shorter : Len(t) = n - 1}, x \in S}

\* The first n entries of s (Vec::truncate: no effect when n >= len).
truncate(s, n) == IF n >= Len(s) THEN s ELSE SubSeq(s, 1, n)

(***************************************************************************)
(* &str: UTF-8 bytes, byte offsets                                         *)
(***************************************************************************)
\* char::len_utf8
len_utf8(c) ==
    IF c < 128 THEN 1 ELSE IF c < 2048 THEN 2 ELSE IF c < 65536 THEN 3 ELSE 4

\* char::encode_utf8: how the bytes of a &str come about.
encode_utf8(c) ==
    IF c < 128 THEN <<c>>
    ELSE IF c < 2048 THEN <<192 + (c \div 64), 128 + (c % 64)>>
    ELSE IF c < 65536 THEN
        <<224 + (c \div 4096), 128 + ((c \div 64) % 64), 128 + (c % 64)>>
    ELSE <<240 + (c \div 262144), 128 + ((c \div 4096) % 64),
           128 + ((c \div 64) % 64), 128 + (c % 64)>>

RECURSIVE str_bytes(_)
str_bytes(chars) ==
    IF chars = <<>> THEN <<>>
    ELSE encode_utf8(Head(chars)) \o str_bytes(Tail(chars))

\* The byte at 0-based index i; -1 stands for a read outside the string.
byte_at(bytes, i) == IF i < Len(bytes) THEN bytes[i + 1] ELSE -1

\* self.get_unchecked(offset..).chars().next().unwrap_unchecked(): decodes
\* the code point whose first byte is at `o`.
chars_next(bytes, o) ==
    LET x == byte_at(bytes, o)
        y == byte_at(bytes, o + 1) % 64
        z == byte_at(bytes, o + 2) % 64
        w == byte_at(bytes, o + 3) % 64
    IN  IF x < 128 THEN x
        ELSE IF x < 224 THEN (x % 32) * 64 + y
        ELSE IF x < 240 THEN (x % 32) * 4096 + y * 64 + z
        ELSE (x % 8) * 262144 + y * 4096 + z * 64 + w

str_start(inp) == 0

\* Mutants of str_next: the bound test lets the end offset through; the
\* cursor moves by one byte whatever the code point.
str_next_past_end(inp, o) ==
    IF o <= Len(inp.bytes)
    THEN LET c == chars_next(inp.bytes, o) IN <<o + len_utf8(c), Some(c)>>
    ELSE <<o, None>>

str_next_one_byte(inp, o) ==
    IF o < Len(inp.bytes)
    THEN LET c == chars_next(inp.bytes, o) IN <<o + 1, Some(c)>>
    ELSE <<o, None>>

str_next(inp, o) ==
    IF o < Len(inp.bytes)
    THEN LET c == chars_next(inp.bytes, o) IN <<o + len_utf8(c), Some(c)>>
    ELSE <<o, None>>

str_next_maybe(inp, o) == str_next(inp, o)
str_span(inp, a, b) == SimpleSpan(a, b)
str_prev(o) == saturating_sub(o, 1)
\* Mutant of str_span_from: the end is the number of chars, not of bytes.
str_span_from_chars(inp, a) == SimpleSpan(a, Len(inp.chars))

str_span_from(inp, a) == SimpleSpan(a, Len(inp.bytes))
\* &self[range] and &self[from]: the bytes of the range.
str_slice(inp, a, b) == SubSeq(inp.bytes, a + 1, b)
\* Mutant of str_slice_from: the slice starts one byte late.
str_slice_from_skips(inp, a) == SubSeq(inp.bytes, a + 2, Len(inp.bytes))

str_slice_from(inp, a) == SubSeq(inp.bytes, a + 1, Len(inp.bytes))

(***************************************************************************)
(* &[T] and &[T; N]: element-index offsets.  A reference &'a T into the    *)
(* input is the index it points at together with the element it sees.      *)
(***************************************************************************)
Ref(i, t) == [ref |-> i, tok |-> t]

\* <[T]>::get
get(elems, o) == IF o < Len(elems) THEN Some(Ref(o, elems[o + 1])) ELSE None

slice_start(inp) == 0

\* Mutant of <&[T]>::next: the offset is incremented at the end of input too.
slice_next_always_advances(inp, o) ==
    LET r == get(inp.elems, o)
    IN  IF is_some(r) THEN <<o + 1, Some(unwrap(r).tok)>> ELSE <<o + 1, None>>

slice_next(inp, o) ==
    LET r == get(inp.elems, o)
    IN  IF is_some(r) THEN <<o + 1, Some(unwrap(r).tok)>> ELSE <<o, None>>

slice_next_ref(inp, o) ==
    LET r == get(inp.elems, o)
    IN  IF is_some(r) THEN <<o + 1, Some(unwrap(r))>> ELSE <<o, None>>

slice_next_maybe(inp, o) == slice_next_ref(inp, o)
slice_span(inp, a, b) == SimpleSpan(a, b)
slice_prev(o) == saturating_sub(o, 1)
slice_span_from(inp, a) == SimpleSpan(a, Len(inp.elems))
slice_slice(inp, a, b) == SubSeq(inp.elems, a + 1, b)
slice_slice_from(inp, a) == SubSeq(inp.elems, a + 1, Len(inp.elems))

array_start(inp) == 0

array_next(inp, o) ==
    LET r == get(inp.elems, o)
    IN  IF is_some(r) THEN <<o + 1, Some(unwrap(r).tok)>> ELSE <<o, None>>

array_next_ref(inp, o) ==
    LET r == get(inp.elems, o)
    IN  IF is_some(r) THEN <<o + 1, Some(unwrap(r))>> ELSE <<o, None>>

array_next_maybe(inp, o) == array_next_ref(inp, o)
array_span(inp, a, b) == SimpleSpan(a, b)
array_prev(o) == saturating_sub(o, 1)
array_span_from(inp, a) == SimpleSpan(a, inp.N)
array_slice(inp, a, b) == SubSeq(inp.elems, a + 1, b)
array_slice_from(inp, a) == SubSeq(inp.elems, a + 1, Len(inp.elems))

(***************************************************************************)
(* The Input traits, dispatched on the input's type, and the two wrappers  *)
(***************************************************************************)
RECURSIVE start(_), next_maybe(_, _), next(_, _), next_ref(_, _)
RECURSIVE span(_, _, _), prev(_, _), span_from(_, _)
RECURSIVE slice(_, _, _), slice_from(_, _)

\* Borrow<Token> for the TokenMaybe of an input: a char is its own borrow, a
\* &'a T borrows the element it points at, a SpannedTokenMaybe borrows the
\* first field of the wrapped pair.
RECURSIVE borrow(_, _)
borrow(inp, tm) ==
    CASE inp.kind = "str" -> tm
      [] inp.kind \in {"slice", "array"} -> tm.tok
      [] inp.kind = "spanned" -> borrow(inp.input, tm.spanned)[1]
      [] inp.kind = "withctx" -> borrow(inp.input, tm)

\* SpannedTokenMaybe(tok, PhantomData)
SpannedTokenMaybe(tm) == [spanned |-> tm]

spanned_start(inp) == start(inp.input)

spanned_next_maybe(inp, o) ==
    LET r == next_maybe(inp.input, o)
    IN  <<r[1], IF is_some(r[2]) THEN Some(SpannedTokenMaybe(unwrap(r[2]))) ELSE None>>

\* Mutants of SpannedInput::span: the end is looked up at range.end itself;
\* a missing end falls back to the end of the end-of-input span.
spanned_span_end_at_b(inp, a, b) ==
    LET s == next_maybe(inp.input, a)[2]
        e == next_maybe(inp.input, b)[2]
        st == IF is_some(s) THEN borrow(inp.input, unwrap(s))[2].start ELSE inp.eoi.start
        en == IF is_some(e) THEN borrow(inp.input, unwrap(e))[2].end ELSE inp.eoi.start
    IN  Span_new(inp.eoi.context, st, en)

spanned_span_eoi_end(inp, a, b) ==
    LET s == next_maybe(inp.input, a)[2]
        e == next_maybe(inp.input, prev(inp.input, b))[2]
        st == IF is_some(s) THEN borrow(inp.input, unwrap(s))[2].start ELSE inp.eoi.start
        en == IF is_some(e) THEN borrow(inp.input, unwrap(e))[2].end ELSE inp.eoi.end
    IN  Span_new(inp.eoi.context, st, en)

spanned_span(inp, a, b) ==
    LET s == next_maybe(inp.input, a)[2]
        e == next_maybe(inp.input, prev(inp.input, b))[2]
        st == IF is_some(s) THEN borrow(inp.input, unwrap(s))[2].start ELSE inp.eoi.start
        en == IF is_some(e) THEN borrow(inp.input, unwrap(e))[2].end ELSE inp.eoi.start
    IN  Span_new(inp.eoi.context, st, en)

spanned_prev(inp, o) == prev(inp.input, o)

spanned_span_from(inp, a) ==
    LET s == next_maybe(inp.input, a)[2]
        st == IF is_some(s) THEN borrow(inp.input, unwrap(s))[2].start ELSE inp.eoi.start
    IN  Span_new(inp.eoi.context, st, inp.eoi.start)

spanned_next(inp, o) ==
    LET r == next(inp.input, o)
    IN  <<r[1], IF is_some(r[2]) THEN Some(unwrap(r[2])[1]) ELSE None>>

\* tok.map(|(tok, _)| tok) on a &'a (T, S): a reference to the pair's first field.
spanned_next_ref(inp, o) ==
    LET r == next_ref(inp.input, o)
    IN  <<r[1], IF is_some(r[2])
                THEN Some(Ref(unwrap(r[2]).ref, unwrap(r[2]).tok[1]))
                ELSE None>>

spanned_slice(inp, a, b) == slice(inp.input, a, b)
spanned_slice_from(inp, a) == slice_from(inp.input, a)

withctx_start(inp) == start(inp.input)
withctx_next_maybe(inp, o) == next_maybe(inp.input, o)
\* Mutant of WithContext::span: the wrapped span's own context is paired
\* with the span instead of the wrapper's.
withctx_span_inner_context(inp, a, b) == <<"()", span(inp.input, a, b)>>

withctx_span(inp, a, b) == <<inp.context, span(inp.input, a, b)>>
withctx_prev(inp, o) == prev(inp.input, o)
withctx_span_from(inp, a) == <<inp.context, span_from(inp.input, a)>>
withctx_next(inp, o) == next(inp.input, o)
withctx_next_ref(inp, o) == next_ref(inp.input, o)
withctx_slice(inp, a, b) == slice(inp.input, a, b)
withctx_slice_from(inp, a) == slice_from(inp.input, a)

start(inp) ==
    CASE inp.kind = "str" -> str_start(inp)
      [] inp.kind = "slice" -> slice_start(inp)
      [] inp.kind = "array" -> array_start(inp)
      [] inp.kind = "spanned" -> spanned_start(inp)
      [] inp.kind = "withctx" -> withctx_start(inp)

next_maybe(inp, o) ==
    CASE inp.kind = "str" -> str_next_maybe(inp, o)
      [] inp.kind = "slice" -> slice_next_maybe(inp, o)
      [] inp.kind = "array" -> array_next_maybe(inp, o)
      [] inp.kind = "spanned" -> spanned_next_maybe(inp, o)
      [] inp.kind = "withctx" -> withctx_next_maybe(inp, o)

next(inp, o) ==
    CASE inp.kind = "str" -> str_next(inp, o)
      [] inp.kind = "slice" -> slice_next(inp, o)
      [] inp.kind = "array" -> array_next(inp, o)
      [] inp.kind = "spanned" -> spanned_next(inp, o)
      [] inp.kind = "withctx" -> withctx_next(inp, o)

next_ref(inp, o) ==
    CASE inp.kind = "slice" -> slice_next_ref(inp, o)
      [] inp.kind = "array" -> array_next_ref(inp, o)
      [] inp.kind = "spanned" -> spanned_next_ref(inp, o)
      [] inp.kind = "withctx" -> withctx_next_ref(inp, o)

span(inp, a, b) ==
    CASE inp.kind = "str" -> str_span(inp, a, b)
      [] inp.kind = "slice" -> slice_span(inp, a, b)
      [] inp.kind = "array" -> array_span(inp, a, b)
      [] inp.kind = "spanned" -> spanned_span(inp, a, b)
      [] inp.kind = "withctx" -> withctx_span(inp, a, b)

prev(inp, o) ==
    CASE inp.kind = "str" -> str_prev(o)
      [] inp.kind = "slice" -> slice_prev(o)
      [] inp.kind = "array" -> array_prev(o)
      [] inp.kind = "spanned" -> spanned_prev(inp, o)
      [] inp.kind = "withctx" -> withctx_prev(inp, o)

span_from(inp, a) ==
    CASE inp.kind = "str" -> str_span_from(inp, a)
      [] inp.kind = "slice" -> slice_span_from(inp, a)
      [] inp.kind = "array" -> array_span_from(inp, a)
      [] inp.kind = "spanned" -> spanned_span_from(inp, a)
      [] inp.kind = "withctx" -> withctx_span_from(inp, a)

slice(inp, a, b) ==
    CASE inp.kind = "str" -> str_slice(inp, a, b)
      [] inp.kind = "slice" -> slice_slice(inp, a, b)
      [] inp.kind = "array" -> array_slice(inp, a, b)
      [] inp.kind = "spanned" -> spanned_slice(inp, a, b)
      [] inp.kind = "withctx" -> withctx_slice(inp, a, b)

slice_from(inp, a) ==
    CASE inp.kind = "str" -> str_slice_from(inp, a)
      [] inp.kind = "slice" -> slice_slice_from(inp, a)
      [] inp.kind = "array" -> array_slice_from(inp, a)
      [] inp.kind = "spanned" -> spanned_slice_from(inp, a)
      [] inp.kind = "withctx" -> withctx_slice_from(inp, a)

\* BorrowInput is implemented for slices, arrays and the wrappers over them.
RECURSIVE is_borrow_input(_)
is_borrow_input(inp) ==
    CASE inp.kind = "str" -> FALSE
      [] inp.kind \in {"slice", "array"} -> TRUE
      [] inp.kind \in {"spanned", "withctx"} -> is_borrow_input(inp.input)

\* Into<MaybeRef<'a, Token>> for the TokenMaybe of an input: a char is a
\* MaybeRef::Val, a &'a T a MaybeRef::Ref, and a SpannedTokenMaybe keeps the
\* variant of the wrapped token and drops the span of the pair.
RECURSIVE into_maybe_ref(_, _)
into_maybe_ref(inp, tm) ==
    CASE inp.kind = "str" -> [variant |-> "Val", tok |-> tm]
      [] inp.kind \in {"slice", "array"} -> [variant |-> "Ref", tok |-> tm.tok]
      [] inp.kind = "spanned" ->
            LET m == into_maybe_ref(inp.input, tm.spanned)
            IN  [variant |-> m.variant, tok |-> m.tok[1]]
      [] inp.kind = "withctx" -> into_maybe_ref(inp.input, tm)

(***************************************************************************)
(* The error type E::Error.  Its operations live outside input.rs; they    *)
(* are modelled from the specification: an error is an expected set, what  *)
(* was found and a span; merging unions the expected sets, replacing takes *)
(* the incoming expected set, found token and span.                        *)
(***************************************************************************)
expected_found(expected, found, sp) ==
    [expected |-> expected, found |-> found, span |-> sp]

merge(self, other) ==
    [self EXCEPT !.expected = self.expected \cup other.expected]

merge_expected_found(self, expected, found, sp) ==
    merge(self, expected_found(expected, found, sp))

replace_expected_found(self, expected, found, sp) ==
    expected_found(expected, found, sp)

\* usize::cmp
cmp(a, b) == IF a = b THEN "Equal" ELSE IF a > b THEN "Greater" ELSE "Less"

(***************************************************************************)
(* Errors: the retained alt                                                *)
(***************************************************************************)
\* Mutants of add_alt: the Greater and Less arms exchanged; the test of
\* `found` inverted; the Less arm keeping the retained error.
add_alt_arms_swapped(old, at, expected, found, sp) ==
    Some(IF is_some(old)
         THEN LET a == unwrap(old)
                  ord == cmp(a.pos, at)
              IN  CASE ord = "Equal" ->
                        IF is_none(found)
                        THEN Located_at(a.pos,
                                 replace_expected_found(a.err, expected, found, sp))
                        ELSE Located_at(a.pos,
                                 merge_expected_found(a.err, expected, found, sp))
                    [] ord = "Less" -> a
                    [] ord = "Greater" ->
                        Located_at(at, replace_expected_found(a.err, expected, found, sp))
         ELSE Located_at(at, expected_found(expected, found, sp)))

add_alt_found_inverted(old, at, expected, found, sp) ==
    Some(IF is_some(old)
         THEN LET a == unwrap(old)
                  ord == cmp(a.pos, at)
              IN  CASE ord = "Equal" ->
                        IF is_some(found)
                        THEN Located_at(a.pos,
                                 replace_expected_found(a.err, expected, found, sp))
                        ELSE Located_at(a.pos,
                                 merge_expected_found(a.err, expected, found, sp))
                    [] ord = "Greater" -> a
                    [] ord = "Less" ->
                        Located_at(at, replace_expected_found(a.err, expected, found, sp))
         ELSE Located_at(at, expected_found(expected, found, sp)))

add_alt_keeps_err(old, at, expected, found, sp) ==
    Some(IF is_some(old)
         THEN LET a == unwrap(old)
                  ord == cmp(a.pos, at)
              IN  CASE ord = "Equal" ->
                        IF is_none(found)
                        THEN Located_at(a.pos,
                                 replace_expected_found(a.err, expected, found, sp))
                        ELSE Located_at(a.pos,
                                 merge_expected_found(a.err, expected, found, sp))
                    [] ord = "Greater" -> a
                    [] ord = "Less" -> Located_at(at, a.err)
         ELSE Located_at(at, expected_found(expected, found, sp)))

add_alt(old, at, expected, found, sp) ==
    Some(IF is_some(old)
         THEN LET a == unwrap(old)
                  ord == cmp(a.pos, at)
              IN  CASE ord = "Equal" ->
                        IF is_none(found)
                        THEN Located_at(a.pos,
                                 replace_expected_found(a.err, expected, found, sp))
                        ELSE Located_at(a.pos,
                                 merge_expected_found(a.err, expected, found, sp))
                    [] ord = "Greater" -> a
                    [] ord = "Less" ->
                        Located_at(at, replace_expected_found(a.err, expected, found, sp))
         ELSE Located_at(at, expected_found(expected, found, sp)))

\* Mutant of add_alt_err: the latest failure wins over a further one.
add_alt_err_latest(old, at, err) ==
    Some(IF is_some(old)
         THEN LET a == unwrap(old)
                  ord == cmp(a.pos, at)
              IN  CASE ord = "Equal" -> Located_at(a.pos, merge(a.err, err))
                    [] ord = "Greater" -> Located_at(at, err)
                    [] ord = "Less" -> Located_at(at, err)
         ELSE Located_at(at, err))

add_alt_err(old, at, err) ==
    Some(IF is_some(old)
         THEN LET a == unwrap(old)
                  ord == cmp(a.pos, at)
              IN  CASE ord = "Equal" -> Located_at(a.pos, merge(a.err, err))
                    [] ord = "Greater" -> a
                    [] ord = "Less" -> Located_at(at, err)
         ELSE Located_at(at, err))

(***************************************************************************)
(* InputOwn / InputRef                                                     *)
(***************************************************************************)
\* E::State::default() and E::Context::default() of InputOwn::new.
State_default == 0
Context_default == "()"

\* Errors::default(): no alt, an empty secondary log.
Errors_default == [alt |-> None, secondary |-> <<>>]

\* InputOwn::new followed by as_ref_start: the session before its first
\* operation.
as_ref_start(inp) ==
    /\ input = inp
    /\ offset = start(inp)
    /\ alt = Errors_default.alt
    /\ secondary = Errors_default.secondary
    /\ markers = <<>>
    /\ state = State_default
    /\ ctx = Context_default
    /\ parents = <<>>
    /\ emitter = None
    /\ recorded = <<>>
    /\ last = [op |-> "as_ref_start"]

next_inner == next(input, offset)
next_maybe_inner == next_maybe(input, offset)
next_ref_inner == next_ref(input, offset)

map_into(inp, tm) == IF is_some(tm) THEN Some(into_maybe_ref(inp, unwrap(tm))) ELSE None

InputRef_next ==
    /\ offset' = next_inner[1]
    /\ last' = [op |-> "next", ret |-> next_inner[2]]
    /\ UNCHANGED <<emitter, parents, state, ctx, input, alt, secondary, markers, recorded>>

InputRef_next_ref ==
    /\ is_borrow_input(input)
    /\ offset' = next_ref_inner[1]
    /\ last' = [op |-> "next_ref", ret |-> next_ref_inner[2]]
    /\ UNCHANGED <<emitter, parents, state, ctx, input, alt, secondary, markers, recorded>>

InputRef_next_maybe ==
    /\ offset' = next_maybe_inner[1]
    /\ last' = [op |-> "next_maybe", ret |-> map_into(input, next_maybe_inner[2])]
    /\ UNCHANGED <<emitter, parents, state, ctx, input, alt, secondary, markers, recorded>>

InputRef_skip ==
    /\ offset' = next_inner[1]
    /\ last' = [op |-> "skip"]
    /\ UNCHANGED <<emitter, parents, state, ctx, input, alt, secondary, markers, recorded>>

\* Mutant of skip_while: the rejected token is consumed.
RECURSIVE skip_while_eats_rejected(_, _, _, _)
skip_while_eats_rejected(inp, o, f, calls) ==
    LET r == next(inp, o)
    IN  IF is_none(r[2]) THEN [offset |-> o, calls |-> calls]
        ELSE IF unwrap(r[2]) \notin f
        THEN [offset |-> r[1], calls |-> Append(calls, unwrap(r[2]))]
        ELSE skip_while_eats_rejected(inp, r[1], f, Append(calls, unwrap(r[2])))

\* The loop of skip_while from offset o: `f` is the set of tokens the
\* predicate accepts, `calls` the tokens the predicate has been called with.
RECURSIVE skip_while(_, _, _, _)
skip_while(inp, o, f, calls) ==
    LET r == next(inp, o)
    IN  IF is_none(r[2]) THEN [offset |-> o, calls |-> calls]
        ELSE IF unwrap(r[2]) \notin f
        THEN [offset |-> o, calls |-> Append(calls, unwrap(r[2]))]
        ELSE skip_while(inp, r[1], f, Append(calls, unwrap(r[2])))

InputRef_skip_while(f) ==
    LET r == skip_while(input, offset, f, <<>>)
    IN  /\ offset' = r.offset
        /\ last' = [op |-> "skip_while", f |-> f, from |-> offset, calls |-> r.calls]
        /\ UNCHANGED <<emitter, parents, state, ctx, input, alt, secondary, markers, recorded>>

InputRef_peek ==
    /\ last' = [op |-> "peek", ret |-> next(input, offset)[2]]
    /\ UNCHANGED <<emitter, parents, state, ctx, input, offset, alt, secondary, markers, recorded>>

InputRef_peek_ref ==
    /\ is_borrow_input(input)
    /\ last' = [op |-> "peek_ref", ret |-> next_ref(input, offset)[2]]
    /\ UNCHANGED <<emitter, parents, state, ctx, input, offset, alt, secondary, markers, recorded>>

\* Mutant of peek_maybe: the cursor moves as in next_maybe.
InputRef_peek_maybe_advances ==
    /\ offset' = next_maybe(input, offset)[1]
    /\ last' = [op |-> "peek_maybe", ret |-> map_into(input, next_maybe(input, offset)[2])]
    /\ UNCHANGED <<emitter, parents, state, ctx, input, alt, secondary, markers, recorded>>

InputRef_peek_maybe ==
    /\ last' = [op |-> "peek_maybe", ret |-> map_into(input, next_maybe(input, offset)[2])]
    /\ UNCHANGED <<emitter, parents, state, ctx, input, offset, alt, secondary, markers, recorded>>

InputRef_offset ==
    /\ last' = [op |-> "offset", ret |-> offset]
    /\ UNCHANGED <<emitter, parents, state, ctx, input, offset, alt, secondary, markers, recorded>>

\* A Marker.  `markers` keeps with each one, as history, whether every rewind
\* since it was saved was to a marker saved after it (nested), while that is
\* so the log it was saved with, and the alt and the state of that time.
Marker(o, n) == [offset |-> o, err_count |-> n]

InputRef_save ==
    /\ Len(markers) < MaxMarkers
    /\ markers' = Append(markers,
            [marker |-> Marker(offset, Len(secondary)), log |-> secondary, nested |-> TRUE,
             hist |-> [alt |-> alt, state |-> state]])
    /\ last' = [op |-> "save", ret |-> Marker(offset, Len(secondary))]
    /\ UNCHANGED <<emitter, parents, state, ctx, input, offset, alt, secondary, recorded>>

\* Mutant of rewind: the secondary log is left as it is.
InputRef_rewind_keeps_log(i) ==
    /\ i \in 1..Len(markers)
    /\ secondary' = secondary
    /\ offset' = markers[i].marker.offset
    /\ markers' = [j \in 1..Len(markers) |->
                      IF j > i THEN [markers[j] EXCEPT !.nested = FALSE, !.log = <<>>]
                      ELSE markers[j]]
    /\ last' = [op |-> "rewind", marker |-> i, moved |-> offset' # offset,
                dropped |-> Len(secondary') < Len(secondary)]
    /\ UNCHANGED <<emitter, parents, state, ctx, input, alt, recorded>>

\* Mutants of rewind: the oldest entries of the log are dropped instead of
\* the newest; the retained alt is reset with the cursor.
InputRef_rewind_drops_oldest(i) ==
    /\ i \in 1..Len(markers)
    /\ secondary' = IF markers[i].marker.err_count >= Len(secondary) THEN secondary
                    ELSE SubSeq(secondary, Len(secondary) - markers[i].marker.err_count + 1,
                                Len(secondary))
    /\ offset' = markers[i].marker.offset
    /\ markers' = [j \in 1..Len(markers) |->
                      IF j > i THEN [markers[j] EXCEPT !.nested = FALSE, !.log = <<>>]
                      ELSE markers[j]]
    /\ last' = [op |-> "rewind", marker |-> i, moved |-> offset' # offset,
                dropped |-> Len(secondary') < Len(secondary)]
    /\ UNCHANGED <<emitter, parents, state, ctx, input, alt, recorded>>

InputRef_rewind_clears_alt(i) ==
    /\ i \in 1..Len(markers)
    /\ secondary' = truncate(secondary, markers[i].marker.err_count)
    /\ offset' = markers[i].marker.offset
    /\ alt' = None
    /\ markers' = [j \in 1..Len(markers) |->
                      IF j > i THEN [markers[j] EXCEPT !.nested = FALSE, !.log = <<>>]
                      ELSE markers[j]]
    /\ last' = [op |-> "rewind", marker |-> i, moved |-> offset' # offset,
                dropped |-> Len(secondary') < Len(secondary)]
    /\ UNCHANGED <<emitter, parents, state, ctx, input, recorded>>

InputRef_rewind(i) ==
    /\ i \in 1..Len(markers)
    /\ secondary' = truncate(secondary, markers[i].marker.err_count)
    /\ offset' = markers[i].marker.offset
    /\ markers' = [j \in 1..Len(markers) |->
                      IF j > i THEN [markers[j] EXCEPT !.nested = FALSE, !.log = <<>>]
                      ELSE markers[j]]
    /\ last' = [op |-> "rewind", marker |-> i, moved |-> offset' # offset,
                dropped |-> Len(secondary') < Len(secondary)]
    /\ UNCHANGED <<emitter, parents, state, ctx, input, alt, recorded>>

InputRef_slice(a, b) ==
    /\ last' = [op |-> "slice", a |-> a, b |-> b, ret |-> slice(input, a, b)]
    /\ UNCHANGED <<emitter, parents, state, ctx, input, offset, alt, secondary, markers, recorded>>

InputRef_slice_from(a) ==
    /\ last' = [op |-> "slice_from", a |-> a, ret |-> slice_from(input, a)]
    /\ UNCHANGED <<emitter, parents, state, ctx, input, offset, alt, secondary, markers, recorded>>

InputRef_span(a, b) ==
    /\ last' = [op |-> "span", a |-> a, b |-> b, ret |-> span(input, a, b)]
    /\ UNCHANGED <<emitter, parents, state, ctx, input, offset, alt, secondary, markers, recorded>>

InputRef_span_from(a) ==
    /\ last' = [op |-> "span_from", a |-> a, ret |-> span_from(input, a)]
    /\ UNCHANGED <<emitter, parents, state, ctx, input, offset, alt, secondary, markers, recorded>>

InputRef_span_since(before) ==
    /\ last' = [op |-> "span_since", a |-> before, ret |-> span(input, before, offset)]
    /\ UNCHANGED <<emitter, parents, state, ctx, input, offset, alt, secondary, markers, recorded>>

\* Mutant of emit: a diagnostic short of the cursor is not logged.
InputRef_emit_if_further(pos, error) ==
    /\ Len(secondary) < MaxLog
    /\ secondary' = IF pos >= offset THEN Append(secondary, Located_at(pos, error))
                    ELSE secondary
    /\ last' = [op |-> "emit", pos |-> pos, error |-> error]
    /\ UNCHANGED <<emitter, parents, state, ctx, input, offset, alt, markers, recorded>>

InputRef_emit(pos, error) ==
    /\ Len(secondary) < MaxLog
    /\ secondary' = Append(secondary, Located_at(pos, error))
    /\ last' = [op |-> "emit", pos |-> pos, error |-> error]
    /\ UNCHANGED <<emitter, parents, state, ctx, input, offset, alt, markers, recorded>>

InputRef_add_alt(at, expected, found, sp) ==
    /\ Len(recorded) < MaxRecorded
    /\ alt' = add_alt(alt, at, expected, found, sp)
    /\ recorded' = Append(recorded, at)
    /\ last' = [op |-> "add_alt", at |-> at, expected |-> expected, found |-> found,
                span |-> sp, before |-> alt,
                again |-> /\ last.op = "add_alt"
                          /\ <<last.at, last.expected, last.found, last.span>>
                                = <<at, expected, found, sp>>]
    /\ UNCHANGED <<emitter, parents, state, ctx, input, offset, secondary, markers>>

InputRef_add_alt_err(at, err) ==
    /\ Len(recorded) < MaxRecorded
    /\ alt' = add_alt_err(alt, at, err)
    /\ recorded' = Append(recorded, at)
    /\ last' = [op |-> "add_alt_err", at |-> at, err |-> err, before |-> alt]
    /\ UNCHANGED <<emitter, parents, state, ctx, input, offset, secondary, markers>>

\* state(): a mutable reference to the user state, through which the caller
\* writes v.
InputRef_state(v) ==
    /\ state' = v
    /\ last' = [op |-> "state", ret |-> v]
    /\ UNCHANGED <<emitter, parents, ctx, input, offset, alt, secondary, markers, recorded>>

\* ctx(): the context the current parser sees.
InputRef_ctx ==
    /\ last' = [op |-> "ctx", ret |-> ctx]
    /\ UNCHANGED <<emitter, parents, state, ctx, input, offset, alt, secondary, markers, recorded>>

\* An InputRef suspended while a callback runs on the InputRef made from it.
\* `hist` is history: the alt, the log and the state at the time of the call
\* and the number of failures recorded by then.
\* Markers carry the lifetime of the InputRef that saved them: the child
\* starts with none and the parent has its own back on return.
Suspended(call) ==
    [call |-> call, offset |-> offset, input |-> input, ctx |-> ctx, markers |-> markers,
     hist |-> [alt |-> alt, secondary |-> secondary, state |-> state,
               recorded |-> Len(recorded)]]

top == parents[Len(parents)]
pop == SubSeq(parents, 1, Len(parents) - 1)

\* with_ctx up to the call of f: the child InputRef.
InputRef_with_ctx(new_ctx) ==
    /\ Len(parents) < MaxDepth
    /\ parents' = Append(parents, Suspended("with_ctx"))
    /\ ctx' = new_ctx
    /\ markers' = <<>>
    /\ last' = [op |-> "with_ctx", new_ctx |-> new_ctx]
    /\ UNCHANGED <<emitter, input, offset, state, alt, secondary, recorded>>

\* Mutant of with_ctx: the child's offset is not written back.
InputRef_with_ctx_forgets_offset(res) ==
    /\ parents # <<>> /\ top.call = "with_ctx"
    /\ offset' = top.offset
    /\ ctx' = top.ctx
    /\ markers' = top.markers
    /\ parents' = pop
    /\ last' = [op |-> "with_ctx_return", ret |-> res, from |-> top.offset,
                child_ctx |-> ctx, hist |-> top.hist]
    /\ UNCHANGED <<emitter, input, state, alt, secondary, recorded>>

\* with_ctx from the return of f: self.offset = new_inp.offset; res.
InputRef_with_ctx_return(res) ==
    /\ parents # <<>> /\ top.call = "with_ctx"
    /\ offset' = offset
    /\ ctx' = top.ctx
    /\ markers' = top.markers
    /\ parents' = pop
    /\ last' = [op |-> "with_ctx_return", ret |-> res, from |-> top.offset,
                child_ctx |-> ctx, hist |-> top.hist]
    /\ UNCHANGED <<emitter, input, state, alt, secondary, recorded>>

\* with_input up to the call of f: the child InputRef over new_input.
InputRef_with_input(new_input) ==
    /\ Len(parents) < MaxDepth
    /\ parents' = Append(parents, Suspended("with_input"))
    /\ input' = new_input
    /\ offset' = start(new_input)
    /\ markers' = <<>>
    /\ last' = [op |-> "with_input", new_input |-> new_input]
    /\ UNCHANGED <<emitter, state, ctx, alt, secondary, recorded>>

\* Mutant of with_input: the child's offset is written back as in with_ctx.
InputRef_with_input_writes_offset(res) ==
    /\ parents # <<>> /\ top.call = "with_input"
    /\ input' = top.input
    /\ offset' = offset
    /\ markers' = top.markers
    /\ parents' = pop
    /\ last' = [op |-> "with_input_return", ret |-> res, from |-> top.offset,
                child_input |-> input, child_offset |-> offset, hist |-> top.hist]
    /\ UNCHANGED <<emitter, state, ctx, alt, secondary, recorded>>

\* Mutant of with_input: the log is cut back to what it was at the call.
InputRef_with_input_drops_log(res) ==
    /\ parents # <<>> /\ top.call = "with_input"
    /\ input' = top.input
    /\ offset' = top.offset
    /\ markers' = top.markers
    /\ secondary' = top.hist.secondary
    /\ parents' = pop
    /\ last' = [op |-> "with_input_return", ret |-> res, from |-> top.offset,
                child_input |-> input, child_offset |-> offset, hist |-> top.hist]
    /\ UNCHANGED <<emitter, state, ctx, alt, recorded>>

\* with_input from the return of f: the parent is as it was suspended.
InputRef_with_input_return(res) ==
    /\ parents # <<>> /\ top.call = "with_input"
    /\ input' = top.input
    /\ offset' = top.offset
    /\ markers' = top.markers
    /\ parents' = pop
    /\ last' = [op |-> "with_input_return", ret |-> res, from |-> top.offset,
                child_input |-> input, child_offset |-> offset, hist |-> top.hist]
    /\ UNCHANGED <<emitter, state, ctx, alt, secondary, recorded>>

\* Result<O, E>
Ok(out) == [ok |-> TRUE, val |-> out]
Err(e) == [ok |-> FALSE, val |-> e]

\* What parser.go::<M> hands back for a sub-parser that produced `out` or
\* failed: Emit keeps the output, Check has () in its place.
go_Emit(succeeded, out) == IF succeeded THEN Ok(out) ELSE Err("()")
go_Check(succeeded, out) == IF succeeded THEN Ok("()") ELSE Err("()")

\* Option::take followed by expect("error but no alt?") and .err
take_expect_err(a) ==
    IF is_some(a) THEN [panicked |-> FALSE, err |-> unwrap(a).err]
    ELSE [panicked |-> TRUE, err |-> "error but no alt?"]

\* Mutant of parse: the error of the alt is returned and the alt stays.
parse_keeps_alt(go, a) ==
    IF go.ok THEN [panicked |-> FALSE, ret |-> Ok(go.val), alt |-> a]
    ELSE [panicked |-> take_expect_err(a).panicked,
          ret |-> Err(take_expect_err(a).err), alt |-> a]

\* The match of parse on the result of go::<Emit>: the result (or the panic)
\* and the alt it leaves.
parse(go, a) ==
    IF go.ok THEN [panicked |-> FALSE, ret |-> Ok(go.val), alt |-> a]
    ELSE [panicked |-> take_expect_err(a).panicked,
          ret |-> Err(take_expect_err(a).err), alt |-> None]

\* Mutant of check: the failure is reported without the retained alt.
check_drops_alt(go, a) ==
    IF go.ok THEN [panicked |-> FALSE, ret |-> Ok("()"), alt |-> a]
    ELSE [panicked |-> FALSE, ret |-> Err("()"), alt |-> a]

\* The match of check on the result of go::<Check>.
check(go, a) ==
    IF go.ok THEN [panicked |-> FALSE, ret |-> Ok("()"), alt |-> a]
    ELSE [panicked |-> take_expect_err(a).panicked,
          ret |-> Err(take_expect_err(a).err), alt |-> None]

\* parse and check up to the call of parser.go: the sub-parser runs on this
\* very InputRef.
InputRef_parse ==
    /\ Len(parents) < MaxDepth
    /\ parents' = Append(parents, Suspended("parse"))
    /\ last' = [op |-> "parse"]
    /\ UNCHANGED <<emitter, state, ctx, input, offset, alt, secondary, markers, recorded>>

InputRef_check ==
    /\ Len(parents) < MaxDepth
    /\ parents' = Append(parents, Suspended("check"))
    /\ last' = [op |-> "check"]
    /\ UNCHANGED <<emitter, state, ctx, input, offset, alt, secondary, markers, recorded>>

\* parse and check from the return of parser.go.  A panic unwinds the session.
InputRef_parse_return(succeeded, out) ==
    LET r == parse(go_Emit(succeeded, out), alt)
    IN  /\ parents # <<>> /\ top.call = "parse"
        /\ alt' = r.alt
        /\ parents' = IF r.panicked THEN <<>> ELSE pop
        /\ last' = [op |-> IF r.panicked THEN "panic" ELSE "parse_return",
                    ret |-> r.ret, succeeded |-> succeeded, out |-> out, before |-> alt,
                    from |-> top.offset, hist |-> top.hist]
        /\ UNCHANGED <<emitter, state, ctx, input, offset, secondary, markers, recorded>>

InputRef_check_return(succeeded, out) ==
    LET r == check(go_Check(succeeded, out), alt)
    IN  /\ parents # <<>> /\ top.call = "check"
        /\ alt' = r.alt
        /\ parents' = IF r.panicked THEN <<>> ELSE pop
        /\ last' = [op |-> IF r.panicked THEN "panic" ELSE "check_return",
                    ret |-> r.ret, succeeded |-> succeeded, out |-> out, before |-> alt,
                    from |-> top.offset, hist |-> top.hist]
        /\ UNCHANGED <<emitter, state, ctx, input, offset, secondary, markers, recorded>>

\* InputOwn::into_errs: the errors of the secondary log, in its order.
RECURSIVE collect_errs(_)
collect_errs(s) ==
    IF s = <<>> THEN <<>> ELSE <<Head(s).err>> \o collect_errs(Tail(s))

InputOwn_into_errs ==
    /\ parents = <<>>
    /\ last' = [op |-> "into_errs", ret |-> collect_errs(secondary)]
    /\ UNCHANGED <<emitter, parents, state, ctx, input, offset, alt, secondary, markers, recorded>>

(***************************************************************************)
(* Emitter                                                                 *)
(***************************************************************************)
\* Emitter::new(): no error emitted.
Emitter_new ==
    /\ is_none(emitter)
    /\ emitter' = Some([emitted |-> <<>>])
    /\ last' = [op |-> "Emitter_new"]
    /\ UNCHANGED <<parents, state, ctx, input, offset, alt, secondary, markers, recorded>>

\* Mutant of Emitter::emit: the error is put in front of the emitted ones.
Emitter_emit_in_front(err) ==
    /\ is_some(emitter)
    /\ Len(unwrap(emitter).emitted) < MaxLog
    /\ emitter' = Some([emitted |-> <<err>> \o unwrap(emitter).emitted])
    /\ last' = [op |-> "Emitter_emit", err |-> err]
    /\ UNCHANGED <<parents, state, ctx, input, offset, alt, secondary, markers, recorded>>

\* Emitter::emit: self.emitted.push(err)
Emitter_emit(err) ==
    /\ is_some(emitter)
    /\ Len(unwrap(emitter).emitted) < MaxLog
    /\ emitter' = Some([emitted |-> Append(unwrap(emitter).emitted, err)])
    /\ last' = [op |-> "Emitter_emit", err |-> err]
    /\ UNCHANGED <<parents, state, ctx, input, offset, alt, secondary, markers, recorded>>

\* Emitter::errors: the Emitter is consumed and its errors handed out.
Emitter_errors ==
    /\ is_some(emitter)
    /\ emitter' = None
    /\ last' = [op |-> "Emitter_errors", ret |-> unwrap(emitter).emitted]
    /\ UNCHANGED <<parents, state, ctx, input, offset, alt, secondary, markers, recorded>>

(***************************************************************************)
(* Inputs                                                                  *)
(***************************************************************************)
\* Input::spanned and Input::with_context
spanned(inp, eoi) == [kind |-> "spanned", input |-> inp, eoi |-> eoi]
with_context(inp, context) == [kind |-> "withctx", input |-> inp, context |-> context]

\* A &str holding the given code points.
str_input(chars) == [kind |-> "str", chars |-> chars, bytes |-> str_bytes(chars)]
slice_input(elems) == [kind |-> "slice", elems |-> elems]
array_input(elems) == [kind |-> "array", elems |-> elems, N |-> Len(elems)]

\* Code points of UTF-8 length 1, 2, 3 and 4.
Chars == {97, 233, 8364, 128512}
Elems == {10, 20}
PairSpans == {Span_new("()", 0, 1), Span_new("()", 1, 2), Span_new("()", 3, 5)}
Pairs == Elems \X PairSpans
EoiSpans == {Span_new("()", 2, 2), Span_new("()", 7, 9)}
Contexts == {"file"}

StrInputs == {str_input(s) : s \in SeqsUpTo(Chars, MaxLen)}
SliceInputs == {slice_input(s) : s \in SeqsUpTo(Elems, MaxLen)}
ArrayInputs == {array_input(s) : s \in SeqsUpTo(Elems, MaxLen)}
SpannedInputs ==
    {spanned(slice_input(s), e) : s \in SeqsUpTo(Pairs, MaxLen), e \in EoiSpans}
WithContextInputs ==
    {with_context(i, c) : i \in StrInputs, c \in Contexts}
        \cup {with_context(i, c) : i \in SliceInputs, c \in Contexts}
WithContextSpannedInputs ==
    {with_context(spanned(array_input(s), e), c) :
        s \in SeqsUpTo(Pairs, 1), e \in EoiSpans, c \in Contexts}

\* The inputs of the session specifications: every input type, at the
\* longest length and, for &str, with a code point of more than one byte.
SessionStrs == {str_input([i \in 1..MaxLen |-> IF i = 1 THEN 97 ELSE 233])}
SessionSlices ==
    {slice_input([i \in 1..MaxLen |-> 10 * i]), array_input([i \in 1..MaxLen |-> 10 * i])}
SessionWrapped ==
    {spanned(slice_input([i \in 1..MaxLen |-> <<10 * i, Span_new("()", i - 1, i)>>]),
             Span_new("()", MaxLen, MaxLen)),
     with_context(str_input([i \in 1..MaxLen |-> 233]), "file")}

(***************************************************************************)
(* What an input holds, told apart from how it is read: its tokens in      *)
(* order and the offset each one starts at (the last entry of tok_offsets  *)
(* is the end-of-input offset).                                            *)
(***************************************************************************)
RECURSIVE tokens(_)
tokens(inp) ==
    CASE inp.kind = "str" -> inp.chars
      [] inp.kind \in {"slice", "array"} -> inp.elems
      [] inp.kind = "spanned" ->
            LET t == tokens(inp.input) IN [i \in 1..Len(t) |-> t[i][1]]
      [] inp.kind = "withctx" -> tokens(inp.input)

RECURSIVE widths_sum(_, _)
widths_sum(chars, n) ==
    IF n = 0 THEN 0 ELSE widths_sum(chars, n - 1) + Len(encode_utf8(chars[n]))

RECURSIVE tok_offsets(_)
tok_offsets(inp) ==
    CASE inp.kind = "str" ->
            [i \in 1..(Len(inp.chars) + 1) |-> widths_sum(inp.chars, i - 1)]
      [] inp.kind \in {"slice", "array"} -> [i \in 1..(Len(inp.elems) + 1) |-> i - 1]
      [] inp.kind \in {"spanned", "withctx"} -> tok_offsets(inp.input)

eoi_offset(inp) == tok_offsets(inp)[Len(tok_offsets(inp))]

\* The number of the token that starts at offset o (Len(tokens) + 1 at the
\* end of input), 0 when o is not the start of a token.
tok_index(inp, o) ==
    LET offs == tok_offsets(inp)
    IN  IF \E k \in 1..Len(offs) : offs[k] = o
        THEN CHOOSE k \in 1..Len(offs) : offs[k] = o
        ELSE 0

\* The token a read at offset o is to return, as next returns it.
expected_token(inp, o) ==
    LET k == tok_index(inp, o)
    IN  IF k >= 1 /\ k <= Len(tokens(inp)) THEN Some(tokens(inp)[k]) ELSE None

\* The offset a read at offset o is to leave the cursor at.
expected_offset(inp, o) ==
    LET k == tok_index(inp, o)
    IN  IF k >= 1 /\ k <= Len(tokens(inp)) THEN tok_offsets(inp)[k + 1] ELSE o

\* The token of a read's result, whatever the flavour of the read.
token_of(op, ret) ==
    IF is_none(ret) THEN None
    ELSE IF op \in {"next", "peek"} THEN ret
    ELSE Some(unwrap(ret).tok)

(***************************************************************************)
(* Specifications                                                          *)
(***************************************************************************)
SessionEmits ==
    {<<0, expected_found({Some(10)}, None, SimpleSpan(0, 0))>>,
     <<MaxLen + 1, expected_found({None}, Some(20), SimpleSpan(0, 1))>>}

\* Backtracking: reads, peeks, emit, save and rewind.
InitBacktrack ==
    \/ \E inp \in SessionStrs : as_ref_start(inp)
    \/ \E inp \in SessionWrapped : as_ref_start(inp)

Next ==
    \/ InputRef_next
    \/ InputRef_next_maybe
    \/ InputRef_peek
    \/ InputRef_save
    \/ \E i \in 1..MaxMarkers : InputRef_rewind(i)
    \/ \E e \in SessionEmits : InputRef_emit(e[1], e[2])

Spec == InitBacktrack /\ [][Next]_vars

\* The adapters: every input, read from start() to its end.
InitInput ==
    \/ \E inp \in StrInputs : as_ref_start(inp)
    \/ \E inp \in SliceInputs : as_ref_start(inp)
    \/ \E inp \in ArrayInputs : as_ref_start(inp)
    \/ \E inp \in SpannedInputs : as_ref_start(inp)
    \/ \E inp \in WithContextInputs : as_ref_start(inp)
    \/ \E inp \in WithContextSpannedInputs : as_ref_start(inp)

NextInput ==
    \/ InputRef_next
    \/ InputRef_next_ref
    \/ InputRef_next_maybe

SpecInput == InitInput /\ [][NextInput]_vars

\* The diagnostic aggregator: failures recorded at every position.
AltInputs == {slice_input([i \in 1..MaxLen |-> 10])}
AltShapes ==
    {<<{Some(10)}, None, SimpleSpan(0, 1)>>,
     <<{Some(20), None}, Some(10), SimpleSpan(1, 2)>>}
AltErrs == {expected_found({Some(30)}, Some(20), SimpleSpan(2, 2))}
AltEmits == {<<0, expected_found({Some(10)}, None, SimpleSpan(0, 0))>>}

InitAlt == \E inp \in AltInputs : as_ref_start(inp)

NextAlt ==
    \/ \E at \in 0..MaxLen, sh \in AltShapes : InputRef_add_alt(at, sh[1], sh[2], sh[3])
    \/ \E at \in 0..MaxLen, err \in AltErrs : InputRef_add_alt_err(at, err)
    \/ InputRef_next_maybe
    \/ \E e \in AltEmits : InputRef_emit(e[1], e[2])

SpecAlt == InitAlt /\ [][NextAlt]_vars

\* Reading and looking: sessions that have emitted up to MaxSetup diagnostics
\* and recorded up to MaxSetup failures.
read_offsets(inp) == {tok_offsets(inp)[k] : k \in 1..Len(tok_offsets(inp))}
ReadEmits == AltEmits

Init ==
    \/ \E inp \in SessionStrs : as_ref_start(inp)
    \/ \E inp \in SessionSlices : as_ref_start(inp)
    \/ \E inp \in SessionWrapped : as_ref_start(inp)

\* The reads and skip_while, over every input of the adapters.
NextRead ==
    \/ InputRef_next
    \/ InputRef_next_ref
    \/ InputRef_next_maybe
    \/ InputRef_skip
    \/ \E f \in SUBSET {tokens(input)[k] : k \in 1..Len(tokens(input))} :
            InputRef_skip_while(f)
    \/ \E e \in ReadEmits : Len(secondary) < MaxSetup /\ InputRef_emit(e[1], e[2])
    \/ \E err \in AltErrs : Len(recorded) < MaxSetup /\ InputRef_add_alt_err(1, err)

SpecRead == InitInput /\ [][NextRead]_vars

\* The offsets the session has read its way to.
reached(inp, o) == {a \in read_offsets(inp) : a <= o}

\* The peeks and the queries, at every offset a read leads to, over one
\* input of each type, in sessions that also hold up to MaxSetup markers.
NextLook ==
    \/ InputRef_next
    \/ InputRef_peek
    \/ InputRef_peek_ref
    \/ InputRef_peek_maybe
    \/ InputRef_offset
    \/ Len(markers) < MaxSetup /\ InputRef_save
    \/ \E a \in reached(input, offset), b \in reached(input, offset) :
            a <= b /\ InputRef_span(a, b)
    \/ \E a \in read_offsets(input) : InputRef_span_from(a)
    \/ \E a \in read_offsets(input) : a <= offset /\ InputRef_span_since(a)
    \/ \E a \in reached(input, offset), b \in reached(input, offset) :
            a <= b /\ InputRef_slice(a, b)
    \/ \E a \in read_offsets(input) : InputRef_slice_from(a)
    \/ \E e \in ReadEmits : Len(secondary) < MaxSetup /\ InputRef_emit(e[1], e[2])
    \/ \E err \in AltErrs : Len(recorded) < MaxSetup /\ InputRef_add_alt_err(1, err)

SpecLook == Init /\ [][NextLook]_vars

\* The diagnostics: emit at positions short of, at and past the cursor and
\* the retained alt, with backtracking, up to the end of the session.
States == {0, 1}
DiagEmits ==
    {<<p, expected_found({Some(10)}, None, SimpleSpan(p, p))>> : p \in {0, 1, MaxLen + 1}}

InitDiag == \E inp \in SessionSlices : as_ref_start(inp)

NextDiag ==
    /\ last.op # "into_errs"
    /\ \/ InputRef_next
       \/ Len(markers) < MaxSetup /\ InputRef_save
       \/ \E i \in 1..MaxSetup : InputRef_rewind(i)
       \/ \E e \in DiagEmits : InputRef_emit(e[1], e[2])
       \/ \E err \in AltErrs : Len(recorded) < MaxSetup /\ InputRef_add_alt_err(1, err)
       \/ InputOwn_into_errs

SpecDiag == InitDiag /\ [][NextDiag]_vars

\* The sub-sessions: with_ctx, with_input, parse and check around reads,
\* diagnostics, state changes and backtracking.
SubContexts == {"sub"}
Outs == {"out"}
SubInputs(inp) ==
    IF inp.kind = "str"
    THEN {str_input(SubSeq(inp.chars, 2, Len(inp.chars)))}
    ELSE {slice_input(SubSeq(inp.elems, 2, Len(inp.elems)))}

InitSub == \E inp \in {i \in SessionSlices : i.kind = "slice"} : as_ref_start(inp)

NextSub ==
    \/ InputRef_next
    \/ InputRef_ctx
    \/ \E e \in ReadEmits : Len(secondary) < MaxSetup /\ InputRef_emit(e[1], e[2])
    \/ \E err \in AltErrs : Len(recorded) < MaxSetup /\ InputRef_add_alt_err(1, err)
    \/ \E v \in States : v > state /\ InputRef_state(v)
    \/ \E c \in SubContexts : InputRef_with_ctx(c)
    \/ \E res \in BOOLEAN : InputRef_with_ctx_return(res)
    \/ \E ni \in SubInputs(input) : InputRef_with_input(ni)
    \/ \E res \in BOOLEAN : InputRef_with_input_return(res)

SpecSub == InitSub /\ [][NextSub]_vars

\* Backtracking, in the top-level session and in a with_ctx child entered
\* as its first operation, over failures recorded and state changed since
\* the marker was saved.
NextRewind ==
    \/ InputRef_next
    \/ Len(markers) < MaxSetup /\ InputRef_save
    \/ \E i \in 1..MaxSetup : InputRef_rewind(i)
    \/ \E e \in ReadEmits : Len(secondary) < MaxSetup /\ InputRef_emit(e[1], e[2])
    \/ \E err \in AltErrs : Len(recorded) < MaxSetup /\ InputRef_add_alt_err(1, err)
    \/ \E v \in States : v > state /\ InputRef_state(v)
    \/ \E c \in SubContexts : last.op = "as_ref_start" /\ InputRef_with_ctx(c)

SpecRewind == InitSub /\ [][NextRewind]_vars

\* parse and check around a sub-parser that reads, logs and records failures.
NextParse ==
    /\ last.op # "panic"
    /\ \/ InputRef_next
       \/ \E e \in ReadEmits : Len(secondary) < MaxSetup /\ InputRef_emit(e[1], e[2])
       \/ \E at \in 0..1, err \in AltErrs :
            Len(recorded) < MaxSetup + 1 /\ InputRef_add_alt_err(at, err)
       \/ InputRef_parse
       \/ InputRef_check
       \/ \E ok \in BOOLEAN, out \in Outs : InputRef_parse_return(ok, out)
       \/ \E ok \in BOOLEAN, out \in Outs : InputRef_check_return(ok, out)

SpecParse == InitSub /\ [][NextParse]_vars

\* The reads and the span and slice queries, over every input of the
\* adapters, at the offsets the session has read its way to.

NextQuery ==
    \/ InputRef_next
    \/ InputRef_next_ref
    \/ InputRef_next_maybe
    \/ \E a \in reached(input, offset), b \in reached(input, offset) :
            a <= b /\ InputRef_span(a, b)
    \/ \E a \in reached(input, offset) : InputRef_span_from(a)
    \/ \E a \in reached(input, offset), b \in reached(input, offset) :
            a <= b /\ InputRef_slice(a, b)
    \/ \E a \in reached(input, offset) : InputRef_slice_from(a)

\* The inputs of the adapters and the string "ab".
InitQuery ==
    \/ InitInput
    \/ as_ref_start(str_input(<<97, 98>>))

SpecQuery == InitQuery /\ [][NextQuery]_vars

\* A validation step: an Emitter filled while the session reads, logs,
\* records failures and backtracks.
EmitterErrs ==
    {expected_found({Some(10)}, Some(20), SimpleSpan(0, 1)),
     expected_found({Some(20)}, None, SimpleSpan(1, 2))}

NextEmitter ==
    \/ Emitter_new
    \/ \E err \in EmitterErrs : Emitter_emit(err)
    \/ Emitter_errors
    \/ InputRef_next
    \/ Len(markers) < MaxSetup /\ InputRef_save
    \/ \E i \in 1..MaxSetup : InputRef_rewind(i)
    \/ \E e \in ReadEmits : Len(secondary) < MaxSetup /\ InputRef_emit(e[1], e[2])
    \/ \E err \in AltErrs : Len(recorded) < MaxSetup /\ InputRef_add_alt_err(1, err)

SpecEmitter == InitSub /\ [][NextEmitter]_vars

\* The priority of failures across the session: failures recorded at every
\* position, in the session and in with_ctx and with_input children, around
\* reads, diagnostics and backtracking.
PriorityShapes == {<<{Some(20), None}, Some(10), SimpleSpan(1, 2)>>}

NextPriority ==
    \/ InputRef_next
    \/ \E sh \in PriorityShapes :
            Len(recorded) < MaxSetup + 1 /\ InputRef_add_alt(1, sh[1], sh[2], sh[3])
    \/ \E at \in {0, MaxLen}, err \in AltErrs :
            Len(recorded) < MaxSetup + 1 /\ InputRef_add_alt_err(at, err)
    \/ \E e \in ReadEmits : Len(secondary) < MaxSetup /\ InputRef_emit(e[1], e[2])
    \/ Len(markers) < MaxSetup /\ parents = <<>> /\ InputRef_save
    \/ \E i \in 1..MaxSetup : InputRef_rewind(i)
    \/ \E c \in SubContexts : markers = <<>> /\ InputRef_with_ctx(c)
    \/ InputRef_with_ctx_return(TRUE)
    \/ \E ni \in SubInputs(input) : markers = <<>> /\ InputRef_with_input(ni)
    \/ InputRef_with_input_return(TRUE)

SpecPriority == InitSub /\ [][NextPriority]_vars

\* The storage a read at offset o goes to. &str: past the bound test, the
\* bytes of the code point that chars().next() decodes from the byte at o,
\* as many as that byte announces. Slices and arrays: get(o), the element at
\* o when there is one.
str_accessed(inp, o) ==
    IF o < Len(inp.bytes)
    THEN LET x == byte_at(inp.bytes, o)
             w == IF x < 128 THEN 1 ELSE IF x < 224 THEN 2 ELSE IF x < 240 THEN 3 ELSE 4
         IN  o..(o + w - 1)
    ELSE {}

slice_accessed(inp, o) == IF o < Len(inp.elems) THEN {o} ELSE {}

\* The cursor within the input: every &str, slice and array, under every
\* operation that reads or moves the cursor, with markers and with_ctx.
InitBounds ==
    \/ \E inp \in StrInputs : as_ref_start(inp)
    \/ \E inp \in SliceInputs : as_ref_start(inp)
    \/ \E inp \in ArrayInputs : as_ref_start(inp)

NextBounds ==
    \/ InputRef_next
    \/ InputRef_next_ref
    \/ InputRef_next_maybe
    \/ InputRef_skip
    \/ \E f \in SUBSET {tokens(input)[k] : k \in 1..Len(tokens(input))} :
            InputRef_skip_while(f)
    \/ InputRef_peek
    \/ InputRef_peek_ref
    \/ InputRef_peek_maybe
    \/ Len(markers) < MaxSetup /\ InputRef_save
    \/ \E i \in 1..MaxSetup : InputRef_rewind(i)
    \/ \E c \in SubContexts : markers = <<>> /\ InputRef_with_ctx(c)
    \/ InputRef_with_ctx_return(TRUE)

SpecBounds == InitBounds /\ [][NextBounds]_vars

(***************************************************************************)
(* Properties                                                              *)
(***************************************************************************)
max(a, b) == IF a >= b THEN a ELSE b

\* The length of the storage an input reads: bytes of a &str, elements of a
\* slice or an array.
RECURSIVE data_len(_)
data_len(inp) ==
    CASE inp.kind = "str" -> Len(inp.bytes)
      [] inp.kind \in {"slice", "array"} -> Len(inp.elems)
      [] inp.kind \in {"spanned", "withctx"} -> data_len(inp.input)

\* C1 - Rewind exactness: rewind(m), when every rewind since m = save() was
\* to a marker saved after m, leaves the cursor at the offset of save() time
\* and the secondary log equal, entry for entry, to the log of save() time;
\* what was emitted after save() is gone.
RewindExact ==
    (last.op = "rewind" /\ markers[last.marker].nested)
        => /\ offset = markers[last.marker].marker.offset
           /\ secondary = markers[last.marker].log
           /\ Len(secondary) = markers[last.marker].marker.err_count

RewindExactWitness ==
    /\ last.op = "rewind"
    /\ last.marker = 1
    /\ Len(markers) = 2
    /\ markers[1].nested
    /\ last.dropped
    /\ last.moved
    /\ secondary # <<>>

\* C2 - Alt priority law: from a session with no retained alt, two failures
\* recorded at positions p1 < p2, in either order, leave an alt at p2.
AltPriority ==
    (Len(recorded) = 2 /\ recorded[1] # recorded[2])
        => is_some(alt) /\ unwrap(alt).pos = max(recorded[1], recorded[2])

AltPriorityWitness ==
    /\ Len(recorded) = 2
    /\ recorded[1] > recorded[2]
    /\ unwrap(alt).pos = recorded[1]
    /\ last.op = "add_alt"

\* C3 - Tie-break of add_alt at the retained position: the position is kept;
\* with no `found` the incoming expected set replaces the retained one, with
\* a `found` it is unioned into it; add_alt_err merges the two errors.
AltTieBreak ==
    /\ (last.op = "add_alt" /\ is_some(last.before)
            /\ unwrap(last.before).pos = last.at)
        => /\ is_some(alt)
           /\ unwrap(alt).pos = last.at
           /\ is_none(last.found) => unwrap(alt).err.expected = last.expected
           /\ is_some(last.found) =>
                unwrap(alt).err.expected
                    = unwrap(last.before).err.expected \cup last.expected
    /\ (last.op = "add_alt_err" /\ is_some(last.before)
            /\ unwrap(last.before).pos = last.at)
        => alt = Some(Located_at(last.at, merge(unwrap(last.before).err, last.err)))

AltTieBreakWitness ==
    /\ last.op = "add_alt"
    /\ is_some(last.before)
    /\ unwrap(last.before).pos = last.at
    /\ is_some(last.found)
    /\ ~(unwrap(last.before).err.expected \subseteq last.expected)
    /\ ~(last.expected \subseteq unwrap(last.before).err.expected)

\* C4 - A failure recorded further than the retained alt replaces it: the
\* alt is at the incoming position with exactly the incoming expected set,
\* found token and span (add_alt), or is the incoming error (add_alt_err).
AltReplaced ==
    /\ (last.op = "add_alt" /\ is_some(last.before)
            /\ last.at > unwrap(last.before).pos)
        => /\ is_some(alt)
           /\ unwrap(alt).pos = last.at
           /\ unwrap(alt).err.expected = last.expected
           /\ unwrap(alt).err.found = last.found
           /\ unwrap(alt).err.span = last.span
    /\ (last.op = "add_alt_err" /\ is_some(last.before)
            /\ last.at > unwrap(last.before).pos)
        => alt = Some(Located_at(last.at, last.err))

AltReplacedWitness ==
    /\ last.op = "add_alt"
    /\ is_some(last.before)
    /\ last.at > unwrap(last.before).pos
    /\ ~(unwrap(last.before).err.expected \subseteq last.expected)
    /\ unwrap(last.before).err.span # last.span

\* C5 - A failure recorded short of the retained alt changes nothing: the
\* alt, the offset and the secondary log are what they were.
AltKept ==
    [][(recorded' # recorded /\ is_some(alt) /\ last'.at < unwrap(alt).pos)
        => (alt' = alt /\ offset' = offset /\ secondary' = secondary)]_vars

AltKeptWitness ==
    /\ last.op \in {"add_alt", "add_alt_err"}
    /\ is_some(last.before)
    /\ last.at < unwrap(last.before).pos
    /\ alt = last.before
    /\ offset > 0
    /\ secondary # <<>>

\* C6 - Merge idempotence: the same failure recorded twice in a row with
\* add_alt leaves the alt at the position it had after the first recording,
\* with an expected set that includes the one it had then.
MergeIdempotent ==
    (last.op = "add_alt" /\ last.again)
        => /\ is_some(last.before) /\ is_some(alt)
           /\ unwrap(alt).pos = unwrap(last.before).pos
           /\ unwrap(last.before).err.expected \subseteq unwrap(alt).err.expected

MergeIdempotentWitness ==
    /\ last.op = "add_alt"
    /\ last.again
    /\ is_none(last.found)
    /\ unwrap(last.before).pos = last.at
    /\ Len(recorded) = 3

\* C7 - Monotonic offsets: a next_maybe read never moves the cursor back; it
\* yields no token exactly when the cursor is at the end of the data, and
\* then leaves the cursor where it is.
MonotonicOffset ==
    [][InputRef_next_maybe
        => /\ offset' >= offset
           /\ is_none(last'.ret) <=> offset = data_len(input)
           /\ is_none(last'.ret) => offset' = offset]_vars

MonotonicOffsetWitness ==
    /\ last.op = "next_maybe"
    /\ is_none(last.ret)
    /\ input.kind = "str"
    /\ offset = data_len(input)
    /\ offset > Len(input.chars)
    /\ Len(input.chars) = MaxLen

\* C8 - next, next_ref, next_maybe and skip move the cursor past exactly one
\* token when one remains, returning it, and at the end of input return
\* None and leave the cursor; the alt and the secondary log are untouched.
ReadsAdvanceOne ==
    [][(InputRef_next \/ InputRef_next_ref \/ InputRef_next_maybe \/ InputRef_skip)
        => /\ offset' = expected_offset(input, offset)
           /\ is_none(expected_token(input, offset)) => offset' = offset
           /\ is_some(expected_token(input, offset)) => offset' > offset
           /\ last'.op # "skip"
                => token_of(last'.op, last'.ret) = expected_token(input, offset)
           /\ alt' = alt
           /\ secondary' = secondary]_vars

ReadsAdvanceOneWitness ==
    /\ last.op = "next"
    /\ is_some(last.ret)
    /\ input.kind = "str"
    /\ offset = data_len(input)
    /\ offset > Len(input.chars)
    /\ is_some(alt)
    /\ secondary # <<>>

\* C9 - peek, peek_ref and peek_maybe return what next, next_ref and
\* next_maybe would return in the same state, and they, offset(), save(),
\* span(), span_from(), span_since(), slice() and slice_from() leave the
\* offset, the alt and the secondary log as they are.
PeeksArePure ==
    [][(last' # last
            /\ last'.op \in {"peek", "peek_ref", "peek_maybe", "offset", "save", "span",
                             "span_from", "span_since", "slice", "slice_from"})
        => /\ offset' = offset
           /\ alt' = alt
           /\ secondary' = secondary
           /\ last'.op = "peek" => last'.ret = next(input, offset)[2]
           /\ last'.op = "peek_ref" => last'.ret = next_ref(input, offset)[2]
           /\ last'.op = "peek_maybe"
                => last'.ret = map_into(input, next_maybe(input, offset)[2])
           /\ last'.op \in {"peek", "peek_ref", "peek_maybe"}
                => token_of(last'.op, last'.ret) = expected_token(input, offset)]_vars

PeeksArePureWitness ==
    /\ last.op = "peek_maybe"
    /\ is_some(last.ret)
    /\ offset > 0
    /\ is_some(alt)
    /\ secondary # <<>>
    /\ markers # <<>>

\* C10 - skip_while(f) from offset o returns with the cursor at the offset o'
\* where every token from o up to o' satisfies f and o' is the end of input
\* or holds a token that fails f; that token is not consumed, and f is not
\* called again once it has rejected a token.
SkipWhileMaximal ==
    last.op = "skip_while"
        => LET toks == tokens(input)
               k == tok_index(input, last.from)
               k2 == tok_index(input, offset)
               rejected == IF k2 <= Len(toks) THEN 1 ELSE 0
           IN  /\ k >= 1 /\ k2 >= k
               /\ \A j \in k..(k2 - 1) : toks[j] \in last.f
               /\ k2 = Len(toks) + 1 \/ toks[k2] \notin last.f
               /\ Len(last.calls) = (k2 - k) + rejected
               /\ \A j \in 1..Len(last.calls) : last.calls[j] = toks[k + j - 1]
               /\ \A j \in 1..(Len(last.calls) - 1) : last.calls[j] \in last.f

SkipWhileMaximalWitness ==
    /\ last.op = "skip_while"
    /\ offset > last.from
    /\ offset < data_len(input)
    /\ Len(last.calls) = 2
    /\ last.calls[2] \notin last.f

\* C11 - emit(position, error) appends unconditionally: whatever the
\* position (short of, at or past the cursor or the retained alt), the log
\* afterwards is the log before followed by the one entry (position, error),
\* and the offset and the retained alt are unchanged.
EmitAppends ==
    [][\A e \in DiagEmits :
          InputRef_emit(e[1], e[2])
              => /\ secondary' = secondary \o <<Located_at(e[1], e[2])>>
                 /\ offset' = offset
                 /\ alt' = alt]_vars

EmitAppendsWitness ==
    /\ last.op = "emit"
    /\ Len(secondary) = 2
    /\ secondary[2] = Located_at(last.pos, last.error)
    /\ secondary[1].pos > offset
    /\ last.pos < offset
    /\ is_some(alt)
    /\ last.pos < unwrap(alt).pos

\* C12 - The secondary log is never reordered: every step leaves it as it
\* is, appends one entry to it (emit only) or cuts it down to a prefix of
\* itself (rewind only); into_errs returns the errors of the log, entry for
\* entry, in the order of the log.
LogNeverReordered ==
    [][/\ \/ secondary' = secondary
          \/ /\ last'.op = "emit"
             /\ Len(secondary') = Len(secondary) + 1
             /\ SubSeq(secondary', 1, Len(secondary)) = secondary
          \/ /\ last'.op = "rewind"
             /\ Len(secondary') < Len(secondary)
             /\ secondary' = SubSeq(secondary, 1, Len(secondary'))
       /\ InputOwn_into_errs
            => /\ Len(last'.ret) = Len(secondary)
               /\ \A k \in 1..Len(secondary) : last'.ret[k] = secondary[k].err]_vars

LogNeverReorderedWitness ==
    /\ last.op = "rewind"
    /\ last.dropped
    /\ secondary # <<>>
    /\ markers[last.marker].nested
    /\ markers[last.marker].log = secondary
    /\ markers[last.marker].marker.err_count = 1

\* C13 - with_ctx(new_ctx, body): the child starts at the parent's offset on
\* the parent's input and sees new_ctx; when body returns, with either
\* result, the parent's offset is the child's final offset, its context is
\* the one it had before the call, and the alt, the log and the state are as
\* the child left them.
WithCtxWritesBack ==
    [][/\ \A c \in SubContexts :
            InputRef_with_ctx(c)
                => /\ offset' = offset
                   /\ input' = input
                   /\ ctx' = c
                   /\ parents'[Len(parents')].ctx = ctx
                   /\ alt' = alt /\ secondary' = secondary /\ state' = state
       /\ (InputRef_ctx /\ parents # <<>> /\ top.call = "with_ctx")
            => last'.ret = ctx /\ ctx' = ctx
       /\ \A res \in BOOLEAN :
            InputRef_with_ctx_return(res)
                => /\ offset' = offset
                   /\ input' = input
                   /\ ctx' = top.ctx
                   /\ alt' = alt /\ secondary' = secondary /\ state' = state
                   /\ last'.ret = res]_vars

WithCtxWritesBackWitness ==
    /\ last.op = "with_ctx_return"
    /\ ~last.ret
    /\ offset > last.from
    /\ ctx = Context_default
    /\ last.child_ctx # ctx
    /\ alt # last.hist.alt
    /\ secondary # last.hist.secondary
    /\ state # last.hist.state

\* C14 - with_input(new_input, body): the child starts at new_input.start()
\* and reads the tokens of new_input; when body returns the parent's offset
\* and input are what they were before the call, whatever the child
\* consumed; the context is the parent's throughout, and the alt, the log
\* and the state are as the child left them.
WithInputKeepsOffset ==
    [][/\ \A ni \in SubInputs(input) :
            InputRef_with_input(ni)
                => /\ offset' = start(ni)
                   /\ input' = ni
                   /\ parents'[Len(parents')].offset = offset
                   /\ parents'[Len(parents')].input = input
                   /\ ctx' = ctx
                   /\ alt' = alt /\ secondary' = secondary /\ state' = state
       /\ (InputRef_next /\ parents # <<>> /\ top.call = "with_input")
            => /\ input' = input
               /\ last'.ret = expected_token(input, offset)
               /\ offset' = expected_offset(input, offset)
       /\ \A res \in BOOLEAN :
            InputRef_with_input_return(res)
                => /\ offset' = top.offset
                   /\ input' = top.input
                   /\ ctx' = ctx
                   /\ alt' = alt /\ secondary' = secondary /\ state' = state
                   /\ last'.ret = res]_vars

WithInputKeepsOffsetWitness ==
    /\ last.op = "with_input_return"
    /\ last.child_offset > start(last.child_input)
    /\ last.child_input # input
    /\ offset = last.from
    /\ offset # last.child_offset
    /\ offset > 0
    /\ alt # last.hist.alt
    /\ secondary # last.hist.secondary
    /\ state # last.hist.state

\* C15 - parse returns the value the sub-parser produced when it succeeds and
\* the error of the retained alt when it fails; check succeeds and fails in
\* the same cases, returns the same error and leaves the offset, the alt and
\* the log as parse does, with () in place of the value.
ParseReturnsAlt ==
    [][\A ok \in BOOLEAN, out \in Outs :
          /\ InputRef_parse_return(ok, out)
                => /\ ok => last'.ret = Ok(out) /\ alt' = alt
                   /\ (~ok /\ is_some(alt)) => last'.ret = Err(unwrap(alt).err)
                   /\ offset' = offset
                   /\ secondary' = secondary
          /\ InputRef_check_return(ok, out)
                => LET p == parse(go_Emit(ok, out), alt)
                   IN  /\ last'.ret.ok = p.ret.ok
                       /\ ok => last'.ret = Ok("()")
                       /\ ~ok => last'.ret = p.ret
                       /\ (~ok /\ is_some(alt)) => last'.ret = Err(unwrap(alt).err)
                       /\ (last'.op = "panic") <=> p.panicked
                       /\ alt' = p.alt
                       /\ offset' = offset
                       /\ secondary' = secondary]_vars

ParseReturnsAltWitness ==
    /\ last.op = "check_return"
    /\ ~last.succeeded
    /\ is_some(last.before)
    /\ last.before # last.hist.alt
    /\ last.ret = Err(unwrap(last.before).err)
    /\ offset > last.from
    /\ secondary # last.hist.secondary

\* C20 - rewind(marker) changes the offset and the secondary log only: the
\* retained alt, the user state and the context are what they were, so a
\* failure recorded and a state change made since the marker was saved are
\* still there.
RewindFrame ==
    [][\A i \in 1..MaxMarkers :
          InputRef_rewind(i)
              => /\ alt' = alt
                 /\ state' = state
                 /\ ctx' = ctx
                 /\ input' = input]_vars

RewindFrameWitness ==
    /\ last.op = "rewind"
    /\ last.moved
    /\ last.dropped
    /\ is_some(alt)
    /\ is_none(markers[last.marker].hist.alt)
    /\ state # markers[last.marker].hist.state
    /\ ctx # Context_default

\* The SpannedInput of an input of the model and the span it made, under a
\* WithContext or not; its (token, span) pairs.
spanned_layer(inp) == IF inp.kind = "withctx" THEN inp.input ELSE inp
span_layer(inp, sp) == IF inp.kind = "withctx" THEN sp[2] ELSE sp
is_spanned(inp) == spanned_layer(inp).kind = "spanned"
pairs(inp) == spanned_layer(inp).input.elems

\* The scenario of the specification: [(x, 0..1), (y, 1..2)], end of input 2..2.
is_scenario(inp) ==
    /\ inp.kind = "spanned"
    /\ inp.input.kind = "slice"
    /\ Len(inp.input.elems) = 2
    /\ inp.input.elems[1][2] = Span_new("()", 0, 1)
    /\ inp.input.elems[2][2] = Span_new("()", 1, 2)
    /\ inp.input.elems[1][1] # inp.input.elems[2][1]
    /\ inp.eoi = Span_new("()", 2, 2)

\* C16 - SpannedInput::span(a..b), a <= b read offsets: the span has the
\* context of the end-of-input span, starts where the span of the token at a
\* starts and ends where the span of the token at prev(b) ends (the token
\* before b; token 0 for b = 0); in the scenario span(0..2) is 0..2.
SpannedSpan ==
    (last.op = "span" /\ is_spanned(input))
        => LET ret == span_layer(input, last.ret)
               n == Len(pairs(input))
           IN  /\ ret.context = spanned_layer(input).eoi.context
               /\ last.a < n => ret.start = pairs(input)[last.a + 1][2].start
               /\ n > 0 => ret.end = pairs(input)[max(last.b, 1)][2].end
               /\ (is_scenario(input) /\ last.a = 0 /\ last.b = 2)
                    => last.ret = Span_new("()", 0, 2)

SpannedSpanWitness ==
    /\ last.op = "span"
    /\ is_scenario(input)
    /\ last.a = 0
    /\ last.b = 2
    /\ last.ret = Span_new("()", 0, 2)

SliceConsistent ==
    /\ last.op = "slice"
        => \A b \in read_offsets(input) :
              (last.a <= b /\ b <= last.b)
                  => slice(input, last.a, b) \o slice(input, b, last.b) = last.ret
    /\ last.op = "slice_from"
        => last.ret = slice(input, last.a, eoi_offset(input))

SliceConsistentWitness ==
    /\ last.op = "slice_from"
    /\ input.kind = "str"
    /\ last.a > 0
    /\ last.a < eoi_offset(input)
    /\ Len(last.ret) > 1
    /\ Len(last.ret) < Len(input.bytes)

\* C19 as stated: span_from(a..) is span(a..end) for every exact-size
\* input, SpannedInput included.
SpanFromAsStated ==
    last.op = "span_from" => last.ret = span(input, last.a, eoi_offset(input))

\* C19 - Span consistency: for &str, slices, arrays and WithContext over
\* them span_from(a..) is span(a..end); for a SpannedInput, under a
\* WithContext or not, span_from(a..) has the contexts and the start of
\* span(a..end) and ends at the start of the end-of-input span, and is
\* span(a..end) when the last token's span ends there or there is no token.
SpanFromConsistent ==
    last.op = "span_from"
        => LET whole == span(input, last.a, eoi_offset(input))
           IN  IF is_spanned(input)
               THEN LET ret == span_layer(input, last.ret)
                        w == span_layer(input, whole)
                        n == Len(pairs(input))
                        eoi == spanned_layer(input).eoi
                    IN  /\ ret = [w EXCEPT !.end = eoi.start]
                        /\ input.kind = "withctx" => last.ret[1] = whole[1]
                        /\ (n = 0 \/ pairs(input)[n][2].end = eoi.start)
                                => last.ret = whole
               ELSE last.ret = whole

SpanFromConsistentWitness ==
    /\ last.op = "span_from"
    /\ input.kind = "spanned"
    /\ last.a > 0
    /\ last.a < Len(pairs(input))
    /\ pairs(input)[Len(pairs(input))][2].end # input.eoi.start
    /\ last.ret # span(input, last.a, eoi_offset(input))
    /\ last.ret.end = input.eoi.start

\* C21 - SpannedInput gives well-defined spans for empty ranges: span(a..a)
\* at every read offset a, the start offset of a non-empty stream and the
\* end-of-input offset included, is zero-width, and span(a..b), a <= b, has
\* start <= end.
ZeroWidthEmptyRanges ==
    (last.op = "span" /\ is_spanned(input))
        => LET ret == span_layer(input, last.ret)
           IN  /\ last.a = last.b => ret.start = ret.end
               /\ ret.start <= ret.end

\* The reads of the last step and of the session's position.
is_read(op) == op \in {"next", "next_ref", "next_maybe"}

\* C22 - The string adapter: offsets are byte offsets; a read at an offset
\* short of the length returns the code point that starts at that byte and
\* the offset moved by its UTF-8 length, 1 to 4; a read at the length
\* returns None and the same offset; on "ab" the reads give ('a', 1),
\* ('b', 2), (None, 2), and span(0..2) covers the two bytes.
StringAdapter ==
    [][(input.kind = "str" /\ last' # last)
        => LET k == tok_index(input, offset)
               len == Len(input.bytes)
           IN  /\ (InputRef_next /\ offset < len)
                    => /\ k >= 1
                       /\ last'.ret = Some(input.chars[k])
                       /\ offset' = offset + Len(encode_utf8(input.chars[k]))
                       /\ offset' - offset \in 1..4
                       /\ SubSeq(input.bytes, offset + 1, offset') = encode_utf8(input.chars[k])
               /\ (InputRef_next /\ offset >= len)
                    => last'.ret = None /\ offset' = offset
               /\ (InputRef_next /\ input.chars = <<97, 98>>)
                    => <<last'.ret, offset'>>
                          = CASE offset = 0 -> <<Some(97), 1>>
                              [] offset = 1 -> <<Some(98), 2>>
                              [] offset = 2 -> <<None, 2>>
               /\ (last'.op = "span" /\ input.chars = <<97, 98>> /\ last'.a = 0 /\ last'.b = 2)
                    => /\ last'.ret = SimpleSpan(0, Len(input.bytes))
                       /\ slice(input, last'.ret.start, last'.ret.end) = input.bytes]_vars

StringAdapterWitness ==
    /\ input.kind = "str"
    /\ input.chars = <<97, 98>>
    /\ last.op = "next"
    /\ is_none(last.ret)
    /\ offset = 2

\* C23 - The slice and array adapters: next, next_ref and next_maybe from
\* start() visit the offsets 0, 1, ..., n, each yielding the element at the
\* offset it reads (next_ref and next_maybe as a reference to it), then None
\* with the offset staying at n; slice(a..b) is the elements at a to b - 1.
SliceAdapter ==
    [][(input.kind \in {"slice", "array"} /\ last' # last)
        => LET n == Len(input.elems)
           IN  /\ start(input) = 0
               /\ is_read(last'.op)
                    => /\ offset <= n
                       /\ offset' = IF offset < n THEN offset + 1 ELSE n
                       /\ token_of(last'.op, last'.ret)
                            = IF offset < n THEN Some(input.elems[offset + 1]) ELSE None
                       /\ (last'.op = "next_ref" /\ offset < n)
                            => unwrap(last'.ret).ref = offset
                       /\ next(input, offset)[1] = next_ref(input, offset)[1]
                       /\ next(input, offset)[1] = next_maybe(input, offset)[1]
               /\ last'.op = "slice"
                    => /\ Len(last'.ret) = last'.b - last'.a
                       /\ \A j \in 1..Len(last'.ret) :
                              last'.ret[j] = input.elems[last'.a + j]]_vars

SliceAdapterWitness ==
    /\ input.kind = "array"
    /\ Len(input.elems) = MaxLen
    /\ last.op = "next_ref"
    /\ is_none(last.ret)
    /\ offset = MaxLen

\* C24 - The wrappers are transparent for traversal: a read through
\* SpannedInput or WithContext moves to the offset the wrapped input moves
\* to and yields its token (for SpannedInput the first field of the pair),
\* and a span of WithContext is the pair of its context and the span the
\* wrapped input makes for the same range.
WrappersTransparent ==
    [][(input.kind \in {"spanned", "withctx"} /\ last' # last)
        => LET inner == next_maybe(input.input, offset)
               tok == token_of(last'.op, last'.ret)
           IN  /\ is_read(last'.op)
                    => /\ offset' = inner[1]
                       /\ offset' = expected_offset(input.input, offset)
                       /\ is_none(tok) <=> is_none(inner[2])
                       /\ (is_some(tok) /\ input.kind = "spanned")
                            => unwrap(tok) = borrow(input.input, unwrap(inner[2]))[1]
                       /\ (is_some(tok) /\ input.kind = "withctx")
                            => tok = expected_token(input.input, offset)
               /\ (last'.op = "span" /\ input.kind = "withctx")
                    => last'.ret = <<input.context, span(input.input, last'.a, last'.b)>>
               /\ (last'.op = "span_from" /\ input.kind = "withctx")
                    => last'.ret = <<input.context, span_from(input.input, last'.a)>>]_vars

WrappersTransparentWitness ==
    /\ input.kind = "withctx"
    /\ input.input.kind = "spanned"
    /\ last.op = "span"
    /\ last.a < last.b
    /\ last.ret[1] = input.context
    /\ last.ret[2].start < last.ret[2].end

\* C25 - Emitter is push-only: a new Emitter holds nothing, emit(e) puts e
\* after the errors emitted before, errors() returns them all in that order,
\* nothing else changes what an Emitter holds; the Emitter's operations leave
\* the session's log, alt and offset alone and the session's leave the
\* Emitter alone.
EmitterPushOnly ==
    [][/\ Emitter_new => unwrap(emitter').emitted = <<>>
       /\ \A err \in EmitterErrs :
            Emitter_emit(err)
                => unwrap(emitter').emitted = unwrap(emitter).emitted \o <<err>>
       /\ Emitter_errors => last'.ret = unwrap(emitter).emitted
       /\ (is_some(emitter) /\ is_some(emitter'))
            => \/ unwrap(emitter').emitted = unwrap(emitter).emitted
               \/ /\ last'.op = "Emitter_emit"
                  /\ SubSeq(unwrap(emitter').emitted, 1, Len(unwrap(emitter).emitted))
                        = unwrap(emitter).emitted
                  /\ Len(unwrap(emitter').emitted) = Len(unwrap(emitter).emitted) + 1
       /\ last'.op \in {"Emitter_new", "Emitter_emit", "Emitter_errors"}
            => secondary' = secondary /\ alt' = alt /\ offset' = offset
       /\ last'.op \notin {"Emitter_new", "Emitter_emit", "Emitter_errors"}
            => emitter' = emitter]_vars

EmitterPushOnlyWitness ==
    /\ last.op = "Emitter_errors"
    /\ Len(last.ret) = 2
    /\ last.ret[1] # last.ret[2]
    /\ is_none(emitter)
    /\ secondary # <<>>
    /\ secondary[1].err \notin {last.ret[1], last.ret[2]}
    /\ is_some(alt)

\* The furthest of the positions in a non-empty sequence of positions.
furthest(positions) ==
    LET ps == {positions[i] : i \in 1..Len(positions)}
    IN  CHOOSE p \in ps : \A q \in ps : q <= p

\* C26 - While no parse() or check() fails, over add_alt, add_alt_err, emit,
\* reads, save and rewind, with_ctx and with_input: the retained alt is None
\* exactly until the first failure is recorded, afterwards its position is
\* the maximum of all the positions recorded so far, and in no step does the
\* alt go back to None or its position decrease.
AltMonotone ==
    /\ [](recorded = <<>> => is_none(alt))
    /\ [](recorded # <<>> => is_some(alt) /\ unwrap(alt).pos = furthest(recorded))
    /\ [][is_some(alt) => is_some(alt') /\ unwrap(alt').pos >= unwrap(alt).pos]_vars

AltMonotoneWitness ==
    /\ last.op = "rewind"
    /\ last.moved /\ last.dropped
    /\ Len(recorded) = 2
    /\ recorded[2] < recorded[1]
    /\ is_some(alt)
    /\ unwrap(alt).pos = recorded[1]

\* C30 - In the body of with_input a failure is weighed against the retained
\* alt by its offset alone, though that offset indexes the sub-input: recorded
\* at a position smaller than the retained alt's it is dropped, at a greater
\* one it takes the alt's place; and when with_input returns, the alt and the
\* shared log are as the body left them, the body's diagnostics included.
WithInputPriority ==
    [][(parents # <<>> /\ top.call = "with_input")
        => /\ (Len(recorded') = Len(recorded) + 1 /\ is_some(alt))
                => LET at == recorded'[Len(recorded')]
                   IN  /\ at < unwrap(alt).pos => alt' = alt
                       /\ at > unwrap(alt).pos
                            => /\ unwrap(alt').pos = at
                               /\ last'.op = "add_alt_err"
                                    => alt' = Some(Located_at(at, last'.err))
           /\ Len(parents') < Len(parents)
                => /\ secondary' = secondary
                   /\ alt' = alt
                   /\ top.hist.secondary
                        = SubSeq(secondary', 1, Len(top.hist.secondary))]_vars

WithInputPriorityWitness ==
    /\ last.op = "with_input_return"
    /\ last.hist.recorded = 1
    /\ Len(recorded) = 2
    /\ recorded[2] < recorded[1]
    /\ is_some(alt)
    /\ alt = last.hist.alt
    /\ Len(secondary) > Len(last.hist.secondary)

\* What rewind(m) makes of the log and the cursor, as C27 states it: the
\* prefix of the log of length min(its length, m.err_count), at m.offset.
rewound_to(m) ==
    /\ Len(secondary') <= Len(secondary)
    /\ Len(secondary') = (IF Len(secondary) <= m.err_count
                          THEN Len(secondary) ELSE m.err_count)
    /\ secondary' = SubSeq(secondary, 1, Len(secondary'))
    /\ offset' = m.offset

\* C27 as stated - rewind(m) leaves the prefix of the log of length
\* min(previous length, m.err_count) at m.offset; rewinding to a marker m2
\* after a rewind to an earlier marker, saved when the log was shorter, does
\* not bring back what the log held when m2 was saved, and the entries
\* emitted in between are kept.
RewindKeepsBetweenAsStated ==
    [][last'.op = "rewind"
        => LET i == last'.marker
           IN  /\ rewound_to(markers[i].marker)
               /\ (/\ ~markers[i].nested
                   /\ \E j \in 1..(i - 1) :
                        markers[j].marker.err_count < markers[i].marker.err_count)
                    => secondary' = secondary]_vars

\* C27 - rewind(m) never lengthens the secondary log: afterwards the log is
\* the prefix of the previous log of length min(previous length,
\* m.err_count) and the offset is m.offset. Rewinding to a marker m2 after a
\* rewind to an earlier marker moves the cursor to m2.offset and brings
\* nothing back into the log; the entries emitted in between are kept as far
\* as they lie within the first m2.err_count entries of the log, all of them
\* when the log is no longer than m2.err_count, and the rest are dropped.
RewindNeverLengthens ==
    [][last'.op = "rewind"
        => LET i == last'.marker
           IN  /\ rewound_to(markers[i].marker)
               /\ (~markers[i].nested /\ Len(secondary) <= markers[i].marker.err_count)
                    => secondary' = secondary
               /\ (~markers[i].nested /\ Len(secondary) > markers[i].marker.err_count)
                    => /\ Len(secondary') = markers[i].marker.err_count
                       /\ secondary' # secondary]_vars

RewindNeverLengthensWitness ==
    /\ last.op = "rewind"
    /\ last.marker = 2
    /\ ~markers[2].nested
    /\ markers[1].marker.err_count = 0
    /\ markers[2].marker.err_count = 1
    /\ last.dropped
    /\ Len(secondary) = 1
    /\ last.moved

accessed(inp, o) == IF inp.kind = "str" THEN str_accessed(inp, o) ELSE slice_accessed(inp, o)

\* C28 - For &str, slice and array inputs, in every state reached from
\* as_ref_start by next, next_ref, next_maybe, skip, skip_while, the peeks,
\* save, rewind to a marker of the session and with_ctx: the cursor lies
\* between 0 and the length of the input; in a &str it is the byte index of
\* the start of a code point or the length; the offset of every marker held
\* is such an offset too; and a read from the cursor goes to no storage at or
\* beyond the length.
OffsetInBounds ==
    input.kind \in {"str", "slice", "array"}
        => /\ 0 <= offset /\ offset <= data_len(input)
           /\ offset \in read_offsets(input)
           /\ (input.kind = "str" /\ offset < Len(input.bytes))
                => byte_at(input.bytes, offset) \div 64 # 2
           /\ \A i \in 1..Len(markers) : markers[i].marker.offset \in read_offsets(input)
           /\ \A a \in accessed(input, offset) : 0 <= a /\ a < data_len(input)

OffsetInBoundsWitness ==
    /\ input.kind = "str"
    /\ Len(input.bytes) > Len(input.chars) + 1
    /\ offset = Len(input.bytes)
    /\ last.op = "next"
    /\ is_none(last.ret)
    /\ markers # <<>>
    /\ markers[1].marker.offset \notin {0, offset}

\* C29 - A failing parse() or check() takes the retained alt out of the
\* session, so the alt is None afterwards; the next failure that add_alt or
\* add_alt_err records is then retained at its own position, be it smaller
\* than the position of the failure just returned; a succeeding parse() or
\* check() leaves the alt as the sub-parser left it.
FailingParseTakesAlt ==
    [][/\ (Len(parents') < Len(parents) /\ top.call \in {"parse", "check"})
            => /\ ~last'.succeeded => is_none(alt')
               /\ last'.succeeded => alt' = alt
       /\ (Len(recorded') = Len(recorded) + 1 /\ is_none(alt))
            => alt' = Some(Located_at(last'.at, last'.err))
       /\ \A at \in 0..MaxLen, sh \in AltShapes :
            is_none(alt')
                => add_alt(alt', at, sh[1], sh[2], sh[3])
                        = Some(Located_at(at, expected_found(sh[1], sh[2], sh[3])))]_vars

FailingParseTakesAltWitness ==
    /\ last.op = "add_alt_err"
    /\ is_none(last.before)
    /\ Len(recorded) = 2
    /\ recorded[2] < recorded[1]
    /\ is_some(alt)
    /\ unwrap(alt).pos = recorded[2]
    /\ parents = <<>>

====
